---- MODULE Spec2Model ----
(***************************************************************************)
(* A model of mcp_wx_chatinsight/server.py: the DatabaseManager (pool      *)
(* registry, insight memo, DDL snapshot file) and the ChatInsightServer    *)
(* (construction, start(), the tool and resource handlers).                *)
(*                                                                         *)
(* Text is a sequence of one-character strings, so that split, strip,      *)
(* upper, startswith and join are computed character by character.  Fixed  *)
(* literals of the source that are never inspected character-wise (the     *)
(* Chinese sentences of the memo) are one atom each.                       *)
(*                                                                         *)
(* The code runs on one asyncio event loop: the code between two awaits    *)
(* that really suspend is one atomic step.  Each action below is such a    *)
(* stretch of code.                                                        *)
(***************************************************************************)
EXTENDS Integers, Sequences, FiniteSets, TLC

\* ---------------------------------------------------------------- bounds

\* Number of handler slots that can be in flight at once.
MaxTasks == 2
\* Longest insight memo reached (the code sets no cap).
MaxInsights == 2
\* Number of create_pool calls made for direct callers of get_pool.
MaxCreates == 3

\* ---------------------------------------------------------------- inputs

\* Table names: a qualified name, a name with two dots, and a bare name.
TableNameInputs ==
  { <<"a", ".", "t">>, <<"b", ".", "c", ".", "t">>, <<"t">> }

\* Table lists a server can be configured with: none, a bare name, one
\* table, a bare name after a qualified one, and two databases of which
\* the first is named twice.
TableListInputs ==
  { <<>>,
    << <<"t">> >>,
    << <<"a", ".", "t">> >>,
    << <<"b", ".", "c", ".", "t">>, <<"t">> >>,
    << <<"a", ".", "t">>, <<"b", ".", "c", ".", "t">>, <<"a", ".", "t">> >> }

\* Query texts an agent can send: " select 1" (needs strip and upper),
\* "drop", ";SELECT" (SELECT, but not at the start), and "selec".
QueryInputs ==
  { <<" ", "s", "e", "l", "e", "c", "t", " ", "1">>,
    <<"d", "r", "o", "p">>,
    <<";", "S", "E", "L", "E", "C", "T">>,
    <<"s", "e", "l", "e", "c">> }

\* Insight texts an agent can send: "x", and "y\n- z" (an insight that
\* itself holds a line break followed by a dash and a space).
InsightInputs ==
  { <<"x">>, <<"y", "\n", "-", " ", "z">> }

\* ------------------------------------------------------------ text helpers

\* Python: '.' in table_name
HasDot(name) == \E i \in 1..Len(name) : name[i] = "."

RECURSIVE FirstField(_)
\* Python: table_name.split('.')[0]
FirstField(s) ==
  IF s = <<>> \/ Head(s) = "." THEN <<>>
  ELSE <<Head(s)>> \o FirstField(Tail(s))

\* Python: str.isspace for one character
IsSpace(c) == c \in { " ", "\n", "\t", "\r" }

RECURSIVE LStrip(_)
LStrip(s) == IF s # <<>> /\ IsSpace(Head(s)) THEN LStrip(Tail(s)) ELSE s

RECURSIVE RStrip(_)
RStrip(s) ==
  IF s # <<>> /\ IsSpace(s[Len(s)]) THEN RStrip(SubSeq(s, 1, Len(s) - 1)) ELSE s

\* Python: str.strip()
Strip(s) == RStrip(LStrip(s))

LowerCase == << "a", "b", "c", "d", "e", "f", "g", "h", "i", "j", "k", "l", "m",
                "n", "o", "p", "q", "r", "s", "t", "u", "v", "w", "x", "y", "z" >>
UpperCase == << "A", "B", "C", "D", "E", "F", "G", "H", "I", "J", "K", "L", "M",
                "N", "O", "P", "Q", "R", "S", "T", "U", "V", "W", "X", "Y", "Z" >>

UpperChar(c) ==
  IF \E i \in 1..Len(LowerCase) : LowerCase[i] = c
  THEN UpperCase[CHOOSE i \in 1..Len(LowerCase) : LowerCase[i] = c]
  ELSE c

\* Python: str.upper()
Upper(s) == [i \in 1..Len(s) |-> UpperChar(s[i])]

\* Python: s.startswith(prefix)
StartsWith(s, prefix) ==
  /\ Len(s) >= Len(prefix)
  /\ SubSeq(s, 1, Len(prefix)) = prefix

SELECT == <<"S", "E", "L", "E", "C", "T">>

\* A plausible slip: 'SELECT' in query.upper() instead of startswith.
ContainsSelect(query) ==
  \E i \in 1..Len(query) :
    /\ i + Len(SELECT) - 1 <= Len(query)
    /\ SubSeq(Upper(query), i, i + Len(SELECT) - 1) = SELECT

\* query.strip().upper().startswith('SELECT')   (query and report handlers)
IsSelect(query) == StartsWith(Upper(Strip(query)), SELECT)

RECURSIVE Digits(_)
\* Python: str(n) for n >= 0, as in f"{len(self.insights)}"
Digits(n) ==
  LET d == << "0", "1", "2", "3", "4", "5", "6", "7", "8", "9" >>[(n % 10) + 1]
  IN  IF n < 10 THEN <<d>> ELSE Append(Digits(n \div 10), d)

RECURSIVE Join(_, _)
\* Python: sep.join(parts)
Join(sep, parts) ==
  IF parts = <<>> THEN <<>>
  ELSE IF Len(parts) = 1 THEN parts[1]
  ELSE parts[1] \o sep \o Join(sep, Tail(parts))

\* ------------------------------------------------------------ memo text

\* "目前尚未发现任何业务洞察。"
NoInsightsSentence == << "NO_INSIGHTS_YET." >>
\* "📊 业务洞察备忘录 📊\n\n" + "关键洞察发现：\n\n"
MemoHeader == << "MEMO_TITLE", "\n", "\n", "KEY_INSIGHTS:", "\n", "\n" >>
\* "\n总结：\n"
SummaryHeading == << "\n", "SUMMARY:", "\n" >>
\* "分析揭示了" ... "个关键业务洞察，这些洞察为业务战略优化和增长提供了机会。"
SummaryLead == << "ANALYSIS_REVEALED_" >>
SummaryTail == << "_KEY_INSIGHTS." >>

\* f"- {insight}"
Bullet(insight) == << "-", " " >> \o insight

\* A plausible slip: the summary added from the first insight on.
SummaryWantedFromOne(n) == n > 0

\* len(self.insights) > 1
SummaryWanted(n) == n > 1

\* DatabaseManager._synthesize_memo, as a function of self.insights
synthesize_memo(ins) ==
  IF ins = <<>> THEN NoInsightsSentence
  ELSE MemoHeader
       \o Join(<< "\n" >>, [i \in 1..Len(ins) |-> Bullet(ins[i])])
       \o (IF SummaryWanted(Len(ins))
           THEN SummaryHeading \o SummaryLead \o Digits(Len(ins)) \o SummaryTail
           ELSE <<>>)

\* ------------------------------------------------------------------ state

\* The coroutine running ChatInsightServer.__init__ and start().
Main == 0
\* Handler slots (tool and resource invocations run by the transport).
Tasks == 1..MaxTasks
Procs == {Main} \cup Tasks

\* The memo resource registered at @self.mcp.resource(uri=...).
MemoResourceUri == "memo://business_insights"
\* The URI append_insight passes to send_resource_updated.
NotifiedUri == "memo://insights"

\* Contents of the DDL snapshot file 'ddl.txt', by where they come from.
NoFile == "no file"
PreviousDdl == "DDL written by an earlier run"
EmptyFile == "empty"
CurrentDdl == "DDL captured by this run"

VARIABLES
  table_names,      \* ChatInsightServer.table_names
  pools,            \* DatabaseManager.pools, in insertion order: <<[db, pool]>>
  insights,         \* DatabaseManager.insights
  ddl_file,         \* the content of DatabaseManager.ddl_file on disk
  tool_query_desc,  \* what read_ddl() gave _tool_query_description ("unset" before)
  proc,             \* per coroutine: its operation, position and locals
  main_i,           \* start(): index of the for loop over table_names
  close_i,          \* close(): index of the for loop over pools.values()
  createLog,        \* every aiomysql.create_pool call: the db it was for; a
                    \* pool handle is the index of the call that made it
  opened,           \* the handles of the pools create_pool has returned
  handed,           \* <<db, handle>> of every pool get_pool has returned
  closeLog,         \* every pool.close() + wait_closed(), in order
  notified          \* the URIs send_resource_updated was sent for

vars == << table_names, pools, insights, ddl_file, tool_query_desc, proc,
           main_i, close_i, createLog, opened, handed, closeLog,
           notified >>

NoProc ==
  [ op |-> "none", arg |-> <<>>, pc |-> "idle",
    gp_arg |-> <<>>, gp_st |-> "none", gp_call |-> 0, gp_ret |-> 0,
    conn |-> 0, err |-> "", result |-> <<>>, trace |-> <<>> ]

\* ------------------------------------------------------- the pool registry

\* db_name in self.pools
HasPool(reg, db) == \E i \in 1..Len(reg) : reg[i].db = db

\* self.pools[db_name]
PoolOf(reg, db) == reg[CHOOSE i \in 1..Len(reg) : reg[i].db = db].pool

\* self.pools[db_name] = pool   (a dict keeps the position of an existing key)
SetPool(reg, db, h) ==
  IF HasPool(reg, db)
  THEN [i \in 1..Len(reg) |->
          IF reg[i].db = db THEN [db |-> db, pool |-> h] ELSE reg[i]]
  ELSE Append(reg, [db |-> db, pool |-> h])

\* A plausible slip: every name is taken, a bare one as the database itself.
NameAcceptedAlways(table_name) == TRUE

\* get_pool, line 50: if '.' in table_name ... else raise ValueError
NameAccepted(table_name) == HasDot(table_name)

RECURSIVE BeforeLastDot(_)
\* A plausible slip: table_name.rsplit('.', 1)[0]
BeforeLastDot(table_name) ==
  IF table_name = <<>> THEN <<>>
  ELSE IF table_name[Len(table_name)] = "."
       THEN SubSeq(table_name, 1, Len(table_name) - 1)
       ELSE BeforeLastDot(SubSeq(table_name, 1, Len(table_name) - 1))

\* get_pool, line 51: db_name = table_name.split('.')[0]
DbName(table_name) == FirstField(table_name)

\* A plausible slip: the registry asked for the table name, not the db name.
PoolMissingByTableName(table_name) == ~HasPool(pools, table_name)

\* get_pool, line 54: if db_name not in self.pools
PoolMissing(table_name) == ~HasPool(pools, DbName(table_name))

\* get_pool up to its first suspension: what it does with table_name.
\*   raise  : ValueError, nothing else happened
\*   create : aiomysql.create_pool(db=db) was called and is awaited
\*   return : self.pools[db_name] is returned without suspending
GetPoolStart(table_name) ==
  IF ~NameAccepted(table_name)
  THEN [kind |-> "raise", db |-> <<>>, pool |-> 0]
  ELSE IF PoolMissing(table_name)
       THEN [kind |-> "create", db |-> DbName(table_name), pool |-> 0]
       ELSE [kind |-> "return", db |-> DbName(table_name),
             pool |-> PoolOf(pools, DbName(table_name))]

\* ------------------------------------------------- continuations of a caller

InStartLoop == main_i <= Len(table_names)

\* A plausible slip: close() run after run_async but not in a finally
\* clause, so that an exception ends start() without it.
RaisedPastCleanup(rec, e) ==
  [rec EXCEPT !.err = e,
              !.conn = 0,
              !.trace = IF rec.conn # 0 THEN Append(@, "release") ELSE @,
              !.gp_st = IF @ = "creating" THEN "raised" ELSE @,
              !.pc = IF rec.op = "start" THEN "ended" ELSE "done"]

\* A plausible slip: the connection taken with  conn = await pool.acquire()
\* and no async with, so that an exception leaves it checked out.
RaisedHoldingConnection(rec, e) ==
  [rec EXCEPT !.err = e,
              !.gp_st = IF @ = "creating" THEN "raised" ELSE @,
              !.pc = IF rec.op = "start" THEN "finally" ELSE "done"]

\* The caller's state when an exception e leaves its try block: the async
\* with blocks release the connection; a handler ends, start() goes to its
\* finally clause.
Raised(rec, e) ==
  [rec EXCEPT !.err = e,
              !.conn = 0,
              !.trace = IF rec.conn # 0 THEN Append(@, "release") ELSE @,
              !.gp_st = IF @ = "creating" THEN "raised" ELSE @,
              !.pc = IF rec.op = "start" THEN "finally" ELSE "done"]

\* The caller's state when get_pool has returned handle h to it.
GotPool(rec, h) ==
  [rec EXCEPT !.gp_st = "returned",
              !.gp_ret = h,
              !.pc = IF rec.op = "start" /\ InStartLoop THEN "loop"
                     ELSE IF rec.op = "get_pool" THEN "done"
                     ELSE "acquire"]

\* The caller rec calling get_pool(table_name), up to the first suspension.
CallGetPool(rec, table_name) ==
  LET r == GetPoolStart(table_name)
      called == [rec EXCEPT !.gp_arg = table_name,
                            !.gp_st = "none",
                            !.gp_call = 0,
                            !.gp_ret = 0,
                            !.trace = Append(@, "get_pool")]
  IN  CASE r.kind = "raise" ->
             Raised([called EXCEPT !.gp_st = "raised"], "ValueError")
        [] r.kind = "create" ->
             [called EXCEPT !.gp_st = "creating",
                            !.gp_call = Len(createLog) + 1,
                            !.pc = "creating",
                            !.trace = Append(@, "create_pool")]
        [] OTHER -> GotPool(called, r.pool)

\* What the call of get_pool(table_name) does to the shared bookkeeping.
GetPoolEffects(table_name) ==
  LET r == GetPoolStart(table_name)
  IN  /\ createLog' = IF r.kind = "create" THEN Append(createLog, r.db)
                      ELSE createLog
      /\ handed' = IF r.kind = "return" THEN handed \cup { <<r.db, r.pool>> }
                   ELSE handed
      /\ main_i' = IF r.kind = "return" /\ InStartLoop THEN main_i + 1
                   ELSE main_i

\* ------------------------------------------------------- construction, start

Init ==
  /\ table_names \in TableListInputs
  /\ pools = <<>>
  /\ insights = <<>>
  /\ ddl_file \in { NoFile, PreviousDdl }
  /\ tool_query_desc = "unset"
  /\ proc = [p \in Procs |->
               IF p = Main THEN [NoProc EXCEPT !.op = "start", !.pc = "new"]
               ELSE NoProc]
  /\ main_i = 1
  /\ close_i = 1
  /\ createLog = <<>>
  /\ opened = {}
  /\ handed = {}
  /\ closeLog = <<>>
  /\ notified = {}

\* DatabaseManager.read_ddl: open(self.ddl_file, 'r') and read it.
read_ddl == ddl_file

\* ChatInsightServer.__init__: _tool_query_description() reads the DDL file
\* (in both of its branches); main() then runs start().
Construct ==
  /\ proc[Main].pc = "new"
  /\ IF read_ddl = NoFile
     THEN /\ proc' = [proc EXCEPT ![Main].pc = "init_failed",
                                  ![Main].err = "FileNotFoundError"]
          /\ UNCHANGED tool_query_desc
     ELSE /\ tool_query_desc' = read_ddl
          /\ proc' = [proc EXCEPT ![Main].pc = "loop"]
  /\ UNCHANGED << table_names, pools, insights, ddl_file, main_i, close_i,
                  createLog, opened, handed, closeLog, notified >>

\* start(): one iteration of  for table_name in self.table_names:
\*                               await self.db_manager.get_pool(table_name)
StartGetPool ==
  /\ proc[Main].pc = "loop"
  /\ InStartLoop
  /\ proc' = [proc EXCEPT ![Main] = CallGetPool(@, table_names[main_i])]
  /\ GetPoolEffects(table_names[main_i])
  /\ UNCHANGED << table_names, pools, insights, ddl_file, tool_query_desc,
                  close_i, opened, closeLog, notified >>

\* start(): the loop is over; open(ddl_file, 'w') truncates the file, then
\* ddl() -> describe_table() calls get_pool(self.table_names[0]).
StartWriteDdl ==
  /\ proc[Main].pc = "loop"
  /\ ~InStartLoop
  /\ ddl_file' = EmptyFile
  /\ IF table_names = <<>>
     THEN /\ proc' = [proc EXCEPT ![Main] = Raised(@, "IndexError")]
          /\ UNCHANGED << createLog, handed, main_i >>
     ELSE /\ proc' = [proc EXCEPT ![Main] = CallGetPool(@, table_names[1])]
          /\ GetPoolEffects(table_names[1])
  /\ UNCHANGED << table_names, pools, insights, tool_query_desc, close_i,
                  opened, closeLog, notified >>

\* ------------------------------------------------------------- get_pool

\* The event loop can resume coroutine p.  In the server a handler that has
\* ended has answered before another coroutine runs; direct callers of the
\* DatabaseManager (op "get_pool") just end.
Resumable(p) ==
  \A t \in Tasks : proc[t].pc = "done" => proc[t].op = "get_pool"

\* aiomysql.create_pool returned: self.pools[db_name] = <the new pool>;
\* return self.pools[db_name].
CreatePoolDone(p) ==
  /\ Resumable(p)
  /\ proc[p].pc = "creating"
  /\ LET h == proc[p].gp_call
         db == createLog[h]
     IN  /\ opened' = opened \cup {h}
         /\ pools' = SetPool(pools, db, h)
         /\ handed' = handed \cup { <<db, PoolOf(pools', db)>> }
         /\ proc' = [proc EXCEPT ![p] = GotPool(@, PoolOf(pools', db))]
  /\ main_i' = IF p = Main /\ InStartLoop THEN main_i + 1 ELSE main_i
  /\ UNCHANGED << table_names, insights, ddl_file, tool_query_desc, close_i,
                  createLog, closeLog, notified >>

\* aiomysql.create_pool raised (the database cannot be reached).
CreatePoolFail(p) ==
  /\ Resumable(p)
  /\ proc[p].pc = "creating"
  /\ proc' = [proc EXCEPT ![p] = Raised(@, "OperationalError")]
  /\ UNCHANGED << table_names, pools, insights, ddl_file, tool_query_desc,
                  main_i, close_i, createLog, opened, handed, closeLog,
                  notified >>

\* ----------------------------------- acquire, execute, fetch (async with)

\* What the caller does with the fetched rows once the async with blocks
\* have released the connection.
Fetched(rec) ==
  LET released == [rec EXCEPT !.conn = 0,
                              !.trace = @ \o << "fetch", "release" >>]
  IN  CASE rec.op = "start" -> [released EXCEPT !.pc = "serving"]
        [] rec.op = "report" ->
             [released EXCEPT !.pc = "done", !.result = << "report" >>]
        [] OTHER -> [released EXCEPT !.pc = "done", !.result = << "rows" >>]

\* async with pool.acquire() as conn: the connection is handed out.
AcquireDone(p) ==
  /\ Resumable(p)
  /\ proc[p].pc = "acquire"
  /\ proc' = [proc EXCEPT ![p].conn = proc[p].gp_ret,
                          ![p].pc = "execute",
                          ![p].trace = Append(@, "acquire")]
  /\ UNCHANGED << table_names, pools, insights, ddl_file, tool_query_desc,
                  main_i, close_i, createLog, opened, handed, closeLog,
                  notified >>

AcquireFail(p) ==
  /\ Resumable(p)
  /\ proc[p].pc = "acquire"
  /\ proc' = [proc EXCEPT ![p] = Raised(@, "OperationalError")]
  /\ UNCHANGED << table_names, pools, insights, ddl_file, tool_query_desc,
                  main_i, close_i, createLog, opened, handed, closeLog,
                  notified >>

\* await cur.execute(...) returned.
ExecuteDone(p) ==
  /\ Resumable(p)
  /\ proc[p].pc = "execute"
  /\ proc' = [proc EXCEPT ![p].pc = "fetch",
                          ![p].trace = Append(@, "execute")]
  /\ UNCHANGED << table_names, pools, insights, ddl_file, tool_query_desc,
                  main_i, close_i, createLog, opened, handed, closeLog,
                  notified >>

ExecuteFail(p) ==
  /\ Resumable(p)
  /\ proc[p].pc = "execute"
  /\ proc' = [proc EXCEPT ![p] = Raised(@, "ProgrammingError")]
  /\ UNCHANGED << table_names, pools, insights, ddl_file, tool_query_desc,
                  main_i, close_i, createLog, opened, handed, closeLog,
                  notified >>

\* await cur.fetchall() returned; both async with blocks are left.  In
\* start() the DDL is then written to the file and the transport is run.
FetchDone(p) ==
  /\ Resumable(p)
  /\ proc[p].pc = "fetch"
  /\ proc' = [proc EXCEPT ![p] = Fetched(@)]
  /\ ddl_file' = IF p = Main THEN CurrentDdl ELSE ddl_file
  /\ UNCHANGED << table_names, pools, insights, tool_query_desc,
                  main_i, close_i, createLog, opened, handed, closeLog,
                  notified >>

FetchFail(p) ==
  /\ Resumable(p)
  /\ proc[p].pc = "fetch"
  /\ proc' = [proc EXCEPT ![p] = Raised(@, "OperationalError")]
  /\ UNCHANGED << table_names, pools, insights, ddl_file, tool_query_desc,
                  main_i, close_i, createLog, opened, handed, closeLog,
                  notified >>

\* ---------------------------------------------------------------- handlers

\* The transport runs handlers only while start() awaits mcp.run_async.
Serving == proc[Main].pc = "serving"

\* A handler slot that holds no invocation in flight.
Free(t) == proc[t].pc \in { "idle", "done" }

\* Every handler that has ended has given its result or error back to the
\* transport (which it does in the stretch of code in which it ends).
Answered == \A t \in Tasks : proc[t].pc # "done"

\* The transport can start an invocation; it takes the first free slot.
CanInvoke(t) ==
  /\ Serving
  /\ Answered
  /\ Free(t)
  /\ \A u \in Tasks : u < t => ~Free(u)

\* A plausible slip: the index off by one, self.table_names[1], which is
\* the second configured target (IndexError when there is only one).
RunSelectSecondTarget(t, op, query) ==
  LET rec == [NoProc EXCEPT !.op = op, !.arg = query, !.pc = "run"]
  IN  /\ CanInvoke(t)
      /\ IF ~IsSelect(query)
         THEN /\ proc' = [proc EXCEPT ![t] = Raised(rec, "ValueError")]
              /\ UNCHANGED << createLog, handed, main_i >>
         ELSE IF Len(table_names) < 2
         THEN /\ proc' = [proc EXCEPT ![t] = Raised(rec, "IndexError")]
              /\ UNCHANGED << createLog, handed, main_i >>
         ELSE /\ proc' = [proc EXCEPT ![t] = CallGetPool(rec, table_names[2])]
              /\ GetPoolEffects(table_names[2])
      /\ UNCHANGED << table_names, pools, insights, ddl_file, tool_query_desc,
                      close_i, opened, closeLog, notified >>

\* The body shared by the query and report tools, up to the first
\* suspension: the SELECT check, then get_pool(self.table_names[0]).
RunSelect(t, op, query) ==
  LET rec == [NoProc EXCEPT !.op = op, !.arg = query, !.pc = "run"]
  IN  /\ CanInvoke(t)
      /\ IF ~IsSelect(query)
         THEN /\ proc' = [proc EXCEPT ![t] = Raised(rec, "ValueError")]
              /\ UNCHANGED << createLog, handed, main_i >>
         ELSE /\ proc' = [proc EXCEPT ![t] = CallGetPool(rec, table_names[1])]
              /\ GetPoolEffects(table_names[1])
      /\ UNCHANGED << table_names, pools, insights, ddl_file, tool_query_desc,
                      close_i, opened, closeLog, notified >>

\* tool query(query)
Query(t, query) == RunSelect(t, "query", query)

\* tool report(query)
Report(t, query) == RunSelect(t, "report", query)

\* A plausible slip: the newest insight put first, insights.insert(0, insight).
AppendInsightNewestFirst(t, insight) ==
  /\ CanInvoke(t)
  /\ Len(insights) < MaxInsights
  /\ insights' = << insight >> \o insights
  /\ proc' = [proc EXCEPT ![t] =
                [NoProc EXCEPT !.op = "append_insight", !.arg = insight,
                               !.pc = "notify", !.trace = << "append" >>]]
  /\ UNCHANGED << table_names, pools, ddl_file, tool_query_desc, main_i,
                  close_i, createLog, opened, handed, closeLog, notified >>

\* tool append_insight(insight), up to await send_resource_updated(...):
\* the insight is appended and the memo synthesized (and dropped).
AppendInsight(t, insight) ==
  /\ CanInvoke(t)
  /\ Len(insights) < MaxInsights
  /\ insights' = Append(insights, insight)
  /\ proc' = [proc EXCEPT ![t] =
                [NoProc EXCEPT !.op = "append_insight", !.arg = insight,
                               !.pc = "notify", !.trace = << "append" >>]]
  /\ UNCHANGED << table_names, pools, ddl_file, tool_query_desc, main_i,
                  close_i, createLog, opened, handed, closeLog, notified >>

\* send_resource_updated(AnyUrl("memo://insights")) was sent.
NotifyDone(t) ==
  /\ Resumable(t)
  /\ proc[t].pc = "notify"
  /\ notified' = notified \cup { NotifiedUri }
  /\ proc' = [proc EXCEPT ![t].pc = "done",
                          ![t].result = << "added" >>,
                          ![t].trace = Append(@, "notify")]
  /\ UNCHANGED << table_names, pools, insights, ddl_file, tool_query_desc,
                  main_i, close_i, createLog, opened, handed, closeLog >>

\* send_resource_updated raised (the session's stream is closed).
NotifyFail(t) ==
  /\ Resumable(t)
  /\ proc[t].pc = "notify"
  /\ proc' = [proc EXCEPT ![t] = Raised(@, "ClosedResourceError")]
  /\ UNCHANGED << table_names, pools, insights, ddl_file, tool_query_desc,
                  main_i, close_i, createLog, opened, handed, closeLog,
                  notified >>

\* resource memo://business_insights: return await _synthesize_memo()
ReadMemo(t) ==
  /\ CanInvoke(t)
  /\ proc' = [proc EXCEPT ![t] =
                [NoProc EXCEPT !.op = "resource", !.pc = "done",
                               !.result = synthesize_memo(insights)]]
  /\ UNCHANGED << table_names, pools, insights, ddl_file, tool_query_desc,
                  main_i, close_i, createLog, opened, handed, closeLog,
                  notified >>

\* The handlers that ended give their result or error back to the
\* transport, which answers the client; their slots are free again.
Answer ==
  /\ ~Answered
  /\ proc' = [p \in Procs |-> IF proc[p].pc = "done" THEN NoProc ELSE proc[p]]
  /\ UNCHANGED << table_names, pools, insights, ddl_file, tool_query_desc,
                  main_i, close_i, createLog, opened, handed, closeLog,
                  notified >>

\* ------------------------------------------------------- shutdown of start()

\* mcp.run_async ends, returning (e = "") or raising e; the handlers still
\* in flight are cancelled with it.
TransportEnds(e) ==
  /\ Serving
  /\ Answered
  /\ proc' = [p \in Procs |->
                IF p = Main
                THEN [proc[p] EXCEPT !.pc = "finally", !.err = e]
                ELSE IF Free(p) THEN proc[p]
                ELSE Raised(proc[p], "CancelledError")]
  /\ UNCHANGED << table_names, pools, insights, ddl_file, tool_query_desc,
                  main_i, close_i, createLog, opened, handed, closeLog,
                  notified >>

TransportReturns == TransportEnds("")

TransportRaises == TransportEnds("TransportError")

\* DatabaseManager.close(): one iteration of  for pool in self.pools.values():
\*                                               pool.close(); await pool.wait_closed()
CloseNext ==
  /\ Answered
  /\ proc[Main].pc = "finally"
  /\ close_i <= Len(pools)
  /\ closeLog' = Append(closeLog, pools[close_i].pool)
  /\ close_i' = close_i + 1
  /\ UNCHANGED << table_names, pools, insights, ddl_file, tool_query_desc,
                  proc, main_i, createLog, opened, handed, notified >>

\* close() is over: start() ends, re-raising what it caught.
CloseDone ==
  /\ Answered
  /\ proc[Main].pc = "finally"
  /\ close_i > Len(pools)
  /\ proc' = [proc EXCEPT ![Main].pc = "ended"]
  /\ UNCHANGED << table_names, pools, insights, ddl_file, tool_query_desc,
                  main_i, close_i, createLog, opened, handed, closeLog,
                  notified >>

\* ------------------------------------------------------------ the server

Next ==
  \/ Construct
  \/ StartGetPool
  \/ StartWriteDdl
  \/ \E p \in Procs : CreatePoolDone(p)
  \/ \E p \in Procs : CreatePoolFail(p)
  \/ \E p \in Procs : AcquireDone(p)
  \/ \E p \in Procs : AcquireFail(p)
  \/ \E p \in Procs : ExecuteDone(p)
  \/ \E p \in Procs : ExecuteFail(p)
  \/ \E p \in Procs : FetchDone(p)
  \/ \E p \in Procs : FetchFail(p)
  \/ \E t \in Tasks, q \in QueryInputs : Query(t, q)
  \/ \E t \in Tasks, q \in QueryInputs : Report(t, q)
  \/ \E t \in Tasks, s \in InsightInputs : AppendInsight(t, s)
  \/ \E t \in Tasks : NotifyDone(t)
  \/ \E t \in Tasks : NotifyFail(t)
  \/ \E t \in Tasks : ReadMemo(t)
  \/ Answer
  \/ TransportReturns
  \/ TransportRaises
  \/ CloseNext
  \/ CloseDone

\* One server lifetime: __init__, start(), the handlers the transport runs.
Spec == Init /\ [][Next]_vars

\* ------------------------------------ the DatabaseManager under its callers

\* get_pool called directly by concurrent coroutines on one DatabaseManager.
InitMgr ==
  /\ table_names = <<>>
  /\ pools = <<>>
  /\ insights = <<>>
  /\ ddl_file = NoFile
  /\ tool_query_desc = "unset"
  /\ proc = [p \in Procs |-> NoProc]
  /\ main_i = 1
  /\ close_i = 1
  /\ createLog = <<>>
  /\ opened = {}
  /\ handed = {}
  /\ closeLog = <<>>
  /\ notified = {}

\* A coroutine calls  await db_manager.get_pool(table_name).
MgrGetPool(t, table_name) ==
  /\ Free(t)
  /\ Len(createLog) < MaxCreates
  /\ proc' = [proc EXCEPT ![t] =
                CallGetPool([NoProc EXCEPT !.op = "get_pool",
                                           !.arg = table_name], table_name)]
  /\ GetPoolEffects(table_name)
  /\ UNCHANGED << table_names, pools, insights, ddl_file, tool_query_desc,
                  close_i, opened, closeLog, notified >>

NextMgr ==
  \/ \E t \in Tasks, n \in TableNameInputs : MgrGetPool(t, n)
  \/ \E t \in Tasks : CreatePoolDone(t)
  \/ \E t \in Tasks : CreatePoolFail(t)

SpecMgr == InitMgr /\ [][NextMgr]_vars

\* ======================================================= the claims

\* ------------------------------------------------------------------- C1

CreateCallsFor(db) ==
  Cardinality({ i \in 1..Len(createLog) : createLog[i] = db })

KnownDbs ==
  { createLog[i] : i \in 1..Len(createLog) }
    \cup { pools[i].db : i \in 1..Len(pools) }
    \cup { pair[1] : pair \in handed }

\* C1: within one server lifetime, for every database name d,
\* aiomysql.create_pool is called at most once for d, every get_pool call
\* for d returns the same pool handle, and the registry holds at most one
\* pool for d.
C1_OnePoolPerDatabase ==
  \A db \in KnownDbs :
    /\ CreateCallsFor(db) <= 1
    /\ Cardinality({ pair \in handed : pair[1] = db }) <= 1
    /\ Cardinality({ i \in 1..Len(pools) : pools[i].db = db }) <= 1

\* C1's case: a handler's get_pool call returned the pool that startup made.
C1_Witness ==
  \E t \in Tasks :
    /\ proc[t].gp_st = "returned"
    /\ proc[Main].gp_st = "returned"
    /\ proc[t].gp_ret = proc[Main].gp_ret
    /\ CreateCallsFor(createLog[proc[t].gp_ret]) = 1

\* ------------------------------------------------------------------- C2

\* The text, after leading white space, begins with SELECT in any case.
BeginsWithSelect(q) ==
  \E i \in 1..Len(q) :
    /\ \A j \in 1..(i - 1) : IsSpace(q[j])
    /\ i + 5 <= Len(q)
    /\ \A k \in 0..5 : UpperChar(q[i + k]) = SELECT[k + 1]

\* C2: a query or report invocation whose trimmed, upper-cased text does
\* not begin with SELECT has failed with the 'only SELECT' ValueError, and
\* in it no pool was looked up or created, no connection acquired and no
\* statement executed.
C2_NonSelectRejectedUntouched ==
  \A t \in Tasks :
    (proc[t].op \in { "query", "report" } /\ ~BeginsWithSelect(proc[t].arg))
      => /\ proc[t].pc = "done"
         /\ proc[t].err = "ValueError"
         /\ proc[t].trace = <<>>
         /\ proc[t].gp_st = "none"
         /\ proc[t].conn = 0

\* C2's case: a report whose text holds SELECT, but not at its start, was
\* refused.
C2_Witness ==
  \E t \in Tasks :
    /\ proc[t].op = "report"
    /\ proc[t].arg = << ";", "S", "E", "L", "E", "C", "T" >>
    /\ ~BeginsWithSelect(proc[t].arg)
    /\ proc[t].err = "ValueError"

\* ------------------------------------------------------------------- C3

RECURSIVE SplitLines(_)
\* The lines of a text: its pieces between line breaks.
SplitLines(text) ==
  IF \A i \in 1..Len(text) : text[i] # "\n" THEN << text >>
  ELSE LET i == CHOOSE k \in 1..Len(text) :
                  text[k] = "\n" /\ \A j \in 1..(k - 1) : text[j] # "\n"
       IN  << SubSeq(text, 1, i - 1) >>
             \o SplitLines(SubSeq(text, i + 1, Len(text)))

IsBulleted(line) == Len(line) >= 2 /\ line[1] = "-" /\ line[2] = " "

BulletedLines(text) == SelectSeq(SplitLines(text), IsBulleted)

RECURSIVE DecimalValue(_)
\* The number a sequence of decimal digits denotes.
DecimalValue(ds) ==
  IF ds = <<>> THEN 0
  ELSE 10 * DecimalValue(SubSeq(ds, 1, Len(ds) - 1))
         + (CHOOSE v \in 0..9 :
              << "0", "1", "2", "3", "4", "5", "6", "7", "8", "9" >>[v + 1]
                = ds[Len(ds)])

\* The text ends with the summary: the heading line, then the sentence
\* holding the count n in decimal.
EndsWithSummary(text, n) ==
  LET ls == SplitLines(text)
      last == ls[Len(ls)]
  IN  /\ Len(ls) >= 2
      /\ ls[Len(ls) - 1] = << "SUMMARY:" >>
      /\ Len(last) >= 3
      /\ last[1] = SummaryLead[1]
      /\ last[Len(last)] = SummaryTail[1]
      /\ DecimalValue(SubSeq(last, 2, Len(last) - 1)) = n

HasSummary(text) == \E i \in 1..Len(text) : text[i] = "SUMMARY:"

AfterHeader(text) == SubSeq(text, Len(MemoHeader) + 1, Len(text))

RECURSIVE LinesOfBullets(_)
\* The lines the insights give, each written as "- " + insight.
LinesOfBullets(ins) ==
  IF ins = <<>> THEN <<>>
  ELSE SplitLines(<< "-", " " >> \o Head(ins)) \o LinesOfBullets(Tail(ins))

NoLineBreak(insight) == \A i \in 1..Len(insight) : insight[i] # "\n"

\* The rendering text of the insights ins, as C3 states it.
RenderedAsClaimed(text, ins) ==
  LET n == Len(ins)
  IN  /\ n = 0 => text = NoInsightsSentence
      /\ n >= 1 =>
           /\ StartsWith(text, MemoHeader)
           /\ BulletedLines(AfterHeader(text))
                = [i \in 1..n |-> << "-", " " >> \o ins[i]]
      /\ HasSummary(text) <=> n >= 2
      /\ n >= 2 => EndsWithSummary(text, n)

\* The rendering text of the insights ins, as the code gives it.
RenderedAsAmended(text, ins) ==
  LET n == Len(ins)
      body == SplitLines(AfterHeader(text))
      bullets == LinesOfBullets(ins)
  IN  /\ n = 0 => text = NoInsightsSentence
      /\ n >= 1 =>
           /\ StartsWith(text, MemoHeader)
           /\ Len(body) >= Len(bullets)
           /\ SubSeq(body, 1, Len(bullets)) = bullets
           /\ Len(body) = Len(bullets) + (IF n >= 2 THEN 2 ELSE 0)
           /\ (\A i \in 1..n : NoLineBreak(ins[i]))
                => BulletedLines(AfterHeader(text))
                     = [i \in 1..n |-> << "-", " " >> \o ins[i]]
      /\ HasSummary(text) <=> n >= 2
      /\ n >= 2 => EndsWithSummary(text, n)

\* A step in which handler slot t read the memo resource.
ReadsMemo(t) == proc'[t].op = "resource" /\ proc'[t] # proc[t]

\* C3 as stated: every memo rendering of N insights is the fixed sentence
\* for N = 0, and for N >= 1 the header followed by exactly N bulleted
\* lines, one per insight in insertion order, with the summary sentence
\* holding N present exactly when N >= 2.
C3_AsStated ==
  [][\A t \in Tasks : ReadsMemo(t) => RenderedAsClaimed(proc'[t].result, insights)]_vars

\* C3 amended: every memo rendering of N insights is the fixed sentence for
\* N = 0, and for N >= 1 the header followed by the N insights in insertion
\* order, each written as "- " + insight and separated by one line break,
\* which are exactly N bulleted lines when no insight holds a line break;
\* the summary sentence holding N is present exactly when N >= 2.
C3_MemoRendering ==
  [][\A t \in Tasks : ReadsMemo(t) => RenderedAsAmended(proc'[t].result, insights)]_vars

\* C3's case: a rendering of two insights, one of them holding a line
\* break, was returned with its summary.
C3_Witness ==
  \E t \in Tasks :
    /\ proc[t].op = "resource"
    /\ Len(insights) = 2
    /\ \E i \in 1..2 : ~NoLineBreak(insights[i])
    /\ proc[t].result = synthesize_memo(insights)
    /\ EndsWithSummary(proc[t].result, 2)

\* ------------------------------------------------------------------- C4

\* The name holds the separator '.'.
HasSeparator(name) == "." \in { name[i] : i \in 1..Len(name) }

\* A step in which coroutine p called get_pool (the name is in gp_arg').
CallsGetPool(p) ==
  /\ proc[p].pc \in { "loop", "idle", "done" }
  /\ proc'[p] # proc[p]
  /\ proc'[p].gp_st # "none"

\* C4: a get_pool call with a name that holds no '.' raises ValueError
\* before create_pool is called, and leaves the registry as it was.
C4_BareNameRefused ==
  [][\A p \in Procs :
       (CallsGetPool(p) /\ ~HasSeparator(proc'[p].gp_arg))
         => /\ proc'[p].gp_st = "raised"
            /\ proc'[p].err = "ValueError"
            /\ proc'[p].gp_ret = 0
            /\ pools' = pools
            /\ createLog' = createLog
            /\ opened' = opened]_vars

\* C4's case: get_pool was called with a bare name after a pool was made,
\* and raised.
C4_Witness ==
  /\ proc[Main].gp_st = "raised"
  /\ ~HasSeparator(proc[Main].gp_arg)
  /\ proc[Main].err = "ValueError"
  /\ Len(pools) = 1

\* ------------------------------------------------------------------- C5

\* C5: every notification append_insight sends names the memo resource
\* that clients read and subscribe to, and every append_insight that
\* completed sent one.
C5_NotifiesMemoResource ==
  /\ \A uri \in notified : uri = MemoResourceUri
  /\ \A t \in Tasks :
       (proc[t].op = "append_insight" /\ proc[t].pc = "done"
          /\ proc[t].err = "")
         => proc[t].trace = << "append", "notify" >>

\* ------------------------------------------------------------------- C6

\* C6: a handler invocation that ended in failure (cancellation by the
\* transport's end aside) appended no insight and inserted no pool.
C6_FailedInvocationChangesNothing ==
  \A t \in Tasks :
    (proc[t].pc = "done" /\ proc[t].err \notin { "", "CancelledError" })
      => /\ \A i \in 1..Len(proc[t].trace) : proc[t].trace[i] # "append"
         /\ proc[t].gp_call \notin opened

\* ------------------------------------------------------------------- C7

\* C7: under any interleaving of concurrent get_pool calls, one database
\* name gets one pool, and every pool that was created is the one the
\* registry holds for its name.
C7_NoDuplicatePoolRace ==
  /\ \A g, h \in opened : createLog[g] = createLog[h] => g = h
  /\ \A h \in opened :
       HasPool(pools, createLog[h]) /\ PoolOf(pools, createLog[h]) = h

\* ------------------------------------------------------------------- C8

CloseCount(h) == Cardinality({ i \in 1..Len(closeLog) : closeLog[i] = h })

\* C8: when start() has ended, every pool created in the lifetime has been
\* closed and awaited exactly once, however start() ended; before start()
\* reaches its finally clause no pool is closed.
C8_PoolsClosedOnceAtShutdown ==
  /\ proc[Main].pc = "ended" => \A h \in opened : CloseCount(h) = 1
  /\ proc[Main].pc \notin { "finally", "ended" } => closeLog = <<>>
  /\ \A i \in 1..Len(closeLog) : closeLog[i] \in opened

\* C8's case: start() has ended on an exception of the transport, with two
\* pools created, each closed once.
C8_Witness ==
  /\ proc[Main].pc = "ended"
  /\ proc[Main].err = "TransportError"
  /\ Cardinality(opened) = 2
  /\ \A h \in opened : CloseCount(h) = 1

\* ------------------------------------------------------------------- C9

\* C9: the DDL the tool description carries is the DDL this run's startup
\* wrote to the snapshot file: the read follows the write.
C9_DescriptionReadsThisRunsDdl ==
  tool_query_desc # "unset" => tool_query_desc = CurrentDdl

\* ------------------------------------------------------------------ C10

\* key is the text of name before its first '.'.
IsTextBeforeFirstDot(key, name) ==
  \E n \in 1..Len(name) :
    /\ name[n] = "."
    /\ \A j \in 1..(n - 1) : name[j] # "."
    /\ key = SubSeq(name, 1, n - 1)

\* The registry key under which the pool that get_pool gave p is held.
KeyOfReturned(p) ==
  { pools[i].db : i \in { j \in 1..Len(pools) : pools[j].pool = proc[p].gp_ret } }

\* C10 as stated: get_pool takes both forms: it never refuses a name for
\* its form, and the pool it returns is held under the text before the
\* first '.', or under the name itself when the name is bare.
C10_AsStated ==
  \A p \in Procs :
    /\ ~(proc[p].gp_st = "raised" /\ proc[p].err = "ValueError")
    /\ proc[p].gp_st = "returned" =>
         \E key \in KeyOfReturned(p) :
           IF HasSeparator(proc[p].gp_arg)
           THEN IsTextBeforeFirstDot(key, proc[p].gp_arg)
           ELSE key = proc[p].gp_arg

\* C10 amended: for a qualified name the registry key is the text before
\* the first '.', for which a pool is created or returned; a bare name is
\* refused with ValueError and no pool is returned for it.
C10_KeyIsTextBeforeFirstDot ==
  \A p \in Procs :
    /\ proc[p].gp_st = "returned" =>
         /\ HasSeparator(proc[p].gp_arg)
         /\ \E key \in KeyOfReturned(p) :
              IsTextBeforeFirstDot(key, proc[p].gp_arg)
    /\ proc[p].gp_st = "creating" =>
         /\ HasSeparator(proc[p].gp_arg)
         /\ IsTextBeforeFirstDot(createLog[proc[p].gp_call], proc[p].gp_arg)
    /\ (proc[p].gp_st # "none" /\ ~HasSeparator(proc[p].gp_arg)) =>
         /\ proc[p].gp_st = "raised"
         /\ proc[p].err = "ValueError"
         /\ proc[p].gp_ret = 0

\* C10's case: a pool is held for a name with two dots, under the text
\* before the first, and a bare name was refused.
C10_Witness ==
  /\ \E i \in 1..Len(pools) : pools[i].db = << "b" >>
  /\ \E i \in 1..Len(table_names) : table_names[i] = << "b", ".", "c", ".", "t" >>
  /\ proc[Main].gp_st = "raised"
  /\ proc[Main].gp_arg = << "t" >>

\* ------------------------------------------------------------------ C11

\* later extends earlier: earlier is what later began with.
Extends(later, earlier) ==
  /\ Len(later) >= Len(earlier)
  /\ SubSeq(later, 1, Len(earlier)) = earlier

\* In this step slot t starts an invocation of the handler op.
Invokes(t, op) ==
  /\ proc'[t] # proc[t]
  /\ proc[t].pc \in { "idle", "done" }
  /\ proc'[t].op = op
  /\ proc'[t].pc # "idle"

\* C11: the insight memo is append-only.  In every step the memo sequence
\* extends the one before (nothing removed, changed or reordered); it
\* changes only in a step in which append_insight is invoked, and then by
\* exactly that insight at its end; a step that starts a query, a report or
\* a read of the memo leaves it as it was.
C11_MemoAppendOnly ==
  [][ /\ Extends(insights', insights)
      /\ insights' # insights =>
            \E t \in Tasks :
              /\ Invokes(t, "append_insight")
              /\ insights' = Append(insights, proc'[t].arg)
      /\ \A t \in Tasks :
            ( \/ Invokes(t, "query")
              \/ Invokes(t, "report")
              \/ Invokes(t, "resource") ) => insights' = insights ]_vars

\* C11's case: two insights were appended and the memo is read, rendered
\* from both, with both still in the order they came in.
C11_Witness ==
  /\ Len(insights) = 2
  /\ insights[1] # insights[2]
  /\ \E t \in Tasks :
       /\ proc[t].op = "resource"
       /\ proc[t].pc = "done"
       /\ proc[t].result = synthesize_memo(insights)

\* ------------------------------------------------------------------ C12

\* Startup has created the pool of every configured target.
AllTargetsPooled ==
  \A i \in 1..Len(table_names) :
    /\ HasSeparator(table_names[i])
    /\ \E j \in 1..Len(pools) :
         /\ IsTextBeforeFirstDot(pools[j].db, table_names[i])
         /\ pools[j].pool \in opened

\* The pool the registry holds for the first configured target.
FirstTargetPools ==
  { pools[j].pool : j \in { k \in 1..Len(pools) :
        IsTextBeforeFirstDot(pools[k].db, table_names[1]) } }

\* A query or report invocation has not reached create_pool, and the pool
\* it resolved, and the connection it works on, are the first target's.
OnFirstTargetOnly(rec) ==
  /\ rec.gp_st \in { "none", "returned" }
  /\ rec.gp_call = 0
  /\ \A i \in 1..Len(rec.trace) : rec.trace[i] # "create_pool"
  /\ rec.gp_st = "returned" =>
       /\ rec.gp_arg = table_names[1]
       /\ rec.gp_ret \in FirstTargetPools
  /\ rec.conn # 0 => rec.conn \in FirstTargetPools

\* C12: while the transport is serving, the pools of all configured
\* targets exist and no step changes the pool registry or calls
\* create_pool; every query and report invocation resolves the pool of the
\* first configured target without creating one, and executes on a
\* connection of that pool only.
C12_HandlersLeaveRegistryAlone ==
  [][ /\ Serving =>
            /\ AllTargetsPooled
            /\ pools' = pools
            /\ createLog' = createLog
            /\ opened' = opened
      /\ \A t \in Tasks :
            proc'[t].op \in { "query", "report" } => OnFirstTargetOnly(proc'[t])
    ]_vars

\* C12's case: two pools were made at startup, and a query has executed
\* its statement on a connection of the first target's pool, not the other.
C12_Witness ==
  /\ Serving
  /\ Len(pools) = 2
  /\ \E t \in Tasks :
       /\ proc[t].op = "query"
       /\ proc[t].pc = "fetch"
       /\ proc[t].conn = pools[1].pool
       /\ proc[t].conn # pools[2].pool
       /\ IsTextBeforeFirstDot(pools[1].db, table_names[1])

\* ------------------------------------------------------------------ C13

\* The steps an invocation took on a connection, in the order it took them.
ConnectionSteps(rec) ==
  SelectSeq(rec.trace,
            LAMBDA x : x \in { "acquire", "execute", "fetch", "release" })

\* acquire, execute, fetch, release, in that order and once each.
CompleteRun == << "acquire", "execute", "fetch", "release" >>

\* The runs in which the connection is held: acquired, not yet released.
HoldingRuns == { << "acquire" >>, << "acquire", "execute" >> }

\* The runs that ended: the complete one, and those a failure or a
\* cancellation cut short, where release follows what had been done.
EndedRuns ==
  { CompleteRun,
    << "acquire", "release" >>,
    << "acquire", "execute", "release" >> }

\* C13: every connection that query, report or describe_table (run by
\* start()) acquires is released when the invocation ends, on success and
\* on failure alike: a coroutine holds a connection only between its
\* acquire and its release, while it awaits execute or fetchall; one that
\* is not in flight holds none; its steps on the connection are in the
\* order acquire, execute, fetch, release; and a result is returned only
\* after the complete run.
C13_ConnectionsReleased ==
  \A p \in Procs :
    LET steps == ConnectionSteps(proc[p])
    IN  /\ steps \in { <<>> } \cup HoldingRuns \cup EndedRuns
        /\ proc[p].conn # 0 <=> steps \in HoldingRuns
        /\ proc[p].conn # 0 =>
             /\ proc[p].pc \in { "execute", "fetch" }
             /\ proc[p].conn = proc[p].gp_ret
        /\ (proc[p].result # <<>> /\ proc[p].op \in { "query", "report" }) =>
             steps = CompleteRun
        /\ (p = Main /\ proc[p].pc = "serving") => steps = CompleteRun

\* C13's case: describe_table ran to its end at startup, and a query whose
\* statement failed to execute has ended with its connection released.
C13_Witness ==
  /\ ConnectionSteps(proc[Main]) = CompleteRun
  /\ \E t \in Tasks :
       /\ proc[t].op = "query"
       /\ proc[t].pc = "done"
       /\ proc[t].err = "ProgrammingError"
       /\ proc[t].conn = 0
       /\ ConnectionSteps(proc[t]) = << "acquire", "release" >>

====
